---- MODULE Spec2Model ----
(***************************************************************************)
(* SpokenSite: the request handlers of the repository as a state machine.  *)
(*                                                                         *)
(*   api/generate.js      direct submission handler (Vercel KV)            *)
(*   api/webhook.js       webhook handler with HMAC verification           *)
(*   unnamed/part_001     webhook handler that saves to Supabase           *)
(*                                                                         *)
(* Texts whose characters matter (signatures, the collaborator's answer,   *)
(* the request body bytes) are sequences of tokens; texts that are only    *)
(* tested for emptiness and concatenated are TLA+ strings.                 *)
(***************************************************************************)
EXTENDS Integers, Sequences, FiniteSets, TLC

\* ------------------------------------------------------------------ bounds
\* longest messages array of a webhook body
MaxMsgs == 2
\* bytes of a digest (SHA-256 has 32; the model keeps the hex/byte structure)
DigestBytes == 2
\* request slots; Spec runs one request, the others stay "off"
MaxReqs == 2
\* values Date.now() can take when a session id is minted
MaxTime == 2

Reqs == 1..MaxReqs

\* ------------------------------------------------------- JavaScript values
\* undefined: a key that is absent from an object
Undefined == "<undefined>"

\* !v is false: for the strings of the model, neither undefined nor ''
Truthy(v) == v # Undefined /\ v # ""

\* a || b
Or(a, b) == IF Truthy(a) THEN a ELSE b

\* --------------------------------------------------------- request bodies
\* a nested container (data, conversation): absent, or an object that may
\* hold a transcript
NoObj == [present |-> FALSE, transcript |-> Undefined]
Obj(t) == [present |-> TRUE, transcript |-> t]

\* messages: absent, a truthy value that is no array, or an array
NoMsgs == [kind |-> "absent", items |-> <<>>]
OtherMsgs == [kind |-> "other", items |-> <<>>]
Msgs(items) == [kind |-> "array", items |-> items]

Body(t, d, c, m, cid, bn) ==
  [transcript |-> t, data |-> d, conversation |-> c, messages |-> m,
   conversation_id |-> cid, businessName |-> bn]

\* the order in which a sender writes the keys of a body
KeyOrder ==
  <<"transcript", "businessName", "conversation_id", "data", "conversation", "messages">>

HasKey(b, k) ==
  CASE k = "transcript" -> b.transcript # Undefined
    [] k = "businessName" -> b.businessName # Undefined
    [] k = "conversation_id" -> b.conversation_id # Undefined
    [] k = "data" -> b.data.present
    [] k = "conversation" -> b.conversation.present
    [] k = "messages" -> b.messages.kind # "absent"

\* Object.keys(req.body)
ObjectKeys(b) == LET Keep(k) == HasKey(b, k) IN SelectSeq(KeyOrder, Keep)

\* ------------------------------------------------- the body as bytes (JSON)
\* a quoted JSON string, one token
StrTok(s) == "\"" \o s \o "\""

\* the whitespace a sender writes after ':' and ','
Sep(style) == IF style = "spaced" THEN <<" ">> ELSE <<>>

Member(k, v, style) == <<StrTok(k), ":">> \o Sep(style) \o v

RECURSIVE JoinMembers(_, _)
JoinMembers(ms, style) ==
  IF ms = <<>> THEN <<>>
  ELSE IF Len(ms) = 1 THEN ms[1]
  ELSE ms[1] \o <<",">> \o Sep(style) \o JoinMembers(Tail(ms), style)

ObjectToks(ms, style) == <<"{">> \o JoinMembers(ms, style) \o <<"}">>
ArrayToks(es, style) == <<"[">> \o JoinMembers(es, style) \o <<"]">>

OptMember(k, s, style) ==
  IF s = Undefined THEN <<>> ELSE <<Member(k, <<StrTok(s)>>, style)>>

MsgToks(m, style) ==
  ObjectToks(OptMember("role", m.role, style) \o OptMember("content", m.content, style)
               \o OptMember("text", m.text, style), style)

ValueToks(b, k, style) ==
  CASE k = "transcript" -> <<StrTok(b.transcript)>>
    [] k = "businessName" -> <<StrTok(b.businessName)>>
    [] k = "conversation_id" -> <<StrTok(b.conversation_id)>>
    [] k = "data" -> ObjectToks(OptMember("transcript", b.data.transcript, style), style)
    [] k = "conversation" ->
         ObjectToks(OptMember("transcript", b.conversation.transcript, style), style)
    [] k = "messages" ->
         IF b.messages.kind = "other" THEN <<StrTok("none")>>
         ELSE ArrayToks([i \in 1..Len(b.messages.items) |->
                           MsgToks(b.messages.items[i], style)], style)

\* the bytes of body b as a sender writes them in the given style
Serialize(b, style) ==
  LET ks == ObjectKeys(b)
  IN ObjectToks([i \in 1..Len(ks) |-> Member(ks[i], ValueToks(b, ks[i], style), style)],
                style)

\* JSON.stringify(req.body): no whitespace
JSONstringify(b) == Serialize(b, "compact")

\* ------------------------------------------------------------ HMAC, hex
\* the secrets a deployment may be configured with; NoSecret: not configured
Secrets == <<"k1", "k2">>
NoSecret == Undefined

\* every string that occurs in a body, and every token of a serialized body
BodyStrings ==
  <<"transcript", "businessName", "conversation_id", "data", "conversation", "messages",
    "role", "content", "text", "none", "", "T", "D", "C", "c1", "B", "agent", "Hi", "Yo">>
TokTable ==
  <<"{", "}", "[", "]", ",", ":", " ">> \o [i \in 1..Len(BodyStrings) |-> StrTok(BodyStrings[i])]

\* the byte value a token or a secret contributes to the digest
TokCode(t) == CHOOSE i \in 1..Len(TokTable) : TokTable[i] = t
KeyCode(k) == CHOOSE i \in 1..Len(Secrets) : Secrets[i] = k

RECURSIVE Pow(_, _)
Pow(b, n) == IF n = 0 THEN 1 ELSE b * Pow(b, n - 1)

\* the number of distinct digests
DigestSpace == Pow(256, DigestBytes)

RECURSIVE HashUpdate(_, _)
\* hmac.update(payload): every byte of the payload, in order, enters the state
HashUpdate(h, toks) ==
  IF toks = <<>> THEN h
  ELSE HashUpdate((h * 31 + TokCode(Head(toks))) % DigestSpace, Tail(toks))

HexDigits == <<"0", "1", "2", "3", "4", "5", "6", "7", "8", "9", "a", "b", "c", "d", "e", "f">>
UpperDigits == <<"0", "1", "2", "3", "4", "5", "6", "7", "8", "9", "A", "B", "C", "D", "E", "F">>

RECURSIVE ToHex(_, _)
\* n as `len` lower-case hex characters
ToHex(n, len) ==
  IF len = 0 THEN <<>> ELSE ToHex(n \div 16, len - 1) \o <<HexDigits[(n % 16) + 1]>>

\* crypto.createHmac('sha256', key).update(payload).digest('hex'): a keyed digest of the
\* exact payload, as lower-case hex of fixed length (the digest is computed once, then
\* encoded)
Hmac(key, payload) ==
  CHOOSE hex \in
    {ToHex(digest, 2 * DigestBytes) :
       digest \in {(HashUpdate(7919 * KeyCode(key), payload) * 31 + KeyCode(key))
                      % DigestSpace}} : TRUE

IsHex(c) == \E i \in 1..16 : HexDigits[i] = c \/ UpperDigits[i] = c
HexVal(c) == (CHOOSE i \in 1..16 : HexDigits[i] = c \/ UpperDigits[i] = c) - 1

RECURSIVE HexDecode(_)
\* Buffer.from(s, 'hex'): whole pairs of hex characters up to the first pair that is
\* not hex; a trailing odd character is dropped
HexDecode(s) ==
  IF Len(s) < 2 \/ ~IsHex(s[1]) \/ ~IsHex(s[2]) THEN <<>>
  ELSE <<16 * HexVal(s[1]) + HexVal(s[2])>> \o HexDecode(SubSeq(s, 3, Len(s)))

\* the scheme prefix, one token of a signature header
Sha256Prefix == "sha256="

\* signature.replace('sha256=', ''): the first occurrence is removed, wherever it is
StripPrefix(sig) ==
  IF \E i \in 1..Len(sig) : sig[i] = Sha256Prefix
  THEN LET i == CHOOSE j \in 1..Len(sig) :
                  sig[j] = Sha256Prefix /\ \A k \in 1..(j - 1) : sig[k] # Sha256Prefix
       IN SubSeq(sig, 1, i - 1) \o SubSeq(sig, i + 1, Len(sig))
  ELSE sig

\* crypto.timingSafeEqual(a, b): throws a RangeError when the byte lengths differ
timingSafeEqual(a, b) ==
  IF Len(a) # Len(b) THEN "throw" ELSE IF a = b THEN "true" ELSE "false"

\* verifyHmacSignature(payload, signature) under the configured secret:
\* "true", "false", or "throw" when the comparison throws
verifyHmacSignature(secret, payload, signature) ==
  IF secret = NoSecret THEN "false"
  ELSE CHOOSE isValid \in
         {timingSafeEqual(HexDecode(providedSignature), HexDecode(expectedSignature)) :
            providedSignature \in {StripPrefix(signature)},
            expectedSignature \in {Hmac(secret, payload)}} : TRUE

\* --------------------------------------------------- transcript extraction
\* `${m.role || 'unknown'}: ${m.content || m.text || ''}`
MessageLine(m) == Or(m.role, "unknown") \o ": " \o Or(Or(m.content, m.text), "")

RECURSIVE JoinLines(_)
\* lines.join('\n')
JoinLines(ls) ==
  IF ls = <<>> THEN ""
  ELSE IF Len(ls) = 1 THEN ls[1]
  ELSE ls[1] \o "\n" \o JoinLines(Tail(ls))

\* FromMessages with lines that hold no role and no text dropped
FromMessages_SkipEmpty(items) ==
  LET Keep(m) == Truthy(m.role) \/ Truthy(m.content) \/ Truthy(m.text)
      kept == SelectSeq(items, Keep)
  IN JoinLines([i \in 1..Len(kept) |-> MessageLine(kept[i])])

\* messages.map(...).join('\n')
FromMessages(items) == JoinLines([i \in 1..Len(items) |-> MessageLine(items[i])])

\* ExtractTranscript with conversation.transcript tried before data.transcript
ExtractTranscript_ConversationFirst(b) ==
  LET t0 == b.transcript
      t1 == IF ~Truthy(t0) /\ b.conversation.present /\ Truthy(b.conversation.transcript)
            THEN b.conversation.transcript ELSE t0
      t2 == IF ~Truthy(t1) /\ b.data.present /\ Truthy(b.data.transcript)
            THEN b.data.transcript ELSE t1
  IN IF ~Truthy(t2) /\ b.messages.kind = "array" THEN FromMessages(b.messages.items) ELSE t2

\* finalTranscript of the webhook handlers: the four places, tried in order
ExtractTranscript(b) ==
  LET t0 == b.transcript
      t1 == IF ~Truthy(t0) /\ b.data.present /\ Truthy(b.data.transcript)
            THEN b.data.transcript ELSE t0
      t2 == IF ~Truthy(t1) /\ b.conversation.present /\ Truthy(b.conversation.transcript)
            THEN b.conversation.transcript ELSE t1
  IN IF ~Truthy(t2) /\ b.messages.kind = "array" THEN FromMessages(b.messages.items) ELSE t2

\* ---------------------------------------- the collaborator's answer text
\* tokens of an answer text: Fence is the three backticks, Tag is json, Ws is white space, Prose is
\* text that is not JSON; the other tokens are pieces of JSON
Fence == "<fence>"
Tag == "json"
Ws == " "
Prose == "Here"

\* content.includes(pat)
Includes(s, pat) ==
  \E i \in 1..(Len(s) - Len(pat) + 1) : SubSeq(s, i, i + Len(pat) - 1) = pat

\* content.indexOf(pat), from 1; 0 when pat does not occur
IndexOf(s, pat) ==
  IF Includes(s, pat)
  THEN CHOOSE i \in 1..(Len(s) - Len(pat) + 1) :
         /\ SubSeq(s, i, i + Len(pat) - 1) = pat
         /\ \A j \in 1..(i - 1) : SubSeq(s, j, j + Len(pat) - 1) # pat
  ELSE 0

\* s.split(pat)[0]: the text before the first pat, all of s when there is none
SplitFirst(s, pat) == IF Includes(s, pat) THEN SubSeq(s, 1, IndexOf(s, pat) - 1) ELSE s

\* s.split(pat)[1], for s that includes pat: the text between the first pat and the next
SplitSecond(s, pat) ==
  SplitFirst(SubSeq(s, IndexOf(s, pat) + Len(pat), Len(s)), pat)

StartsWith(s, pat) == Len(s) >= Len(pat) /\ SubSeq(s, 1, Len(pat)) = pat
EndsWith(s, pat) == Len(s) >= Len(pat) /\ SubSeq(s, Len(s) - Len(pat) + 1, Len(s)) = pat

RECURSIVE TrimStart(_)
TrimStart(s) == IF s # <<>> /\ Head(s) = Ws THEN TrimStart(Tail(s)) ELSE s
RECURSIVE TrimEnd(_)
TrimEnd(s) == IF s # <<>> /\ s[Len(s)] = Ws THEN TrimEnd(SubSeq(s, 1, Len(s) - 1)) ELSE s
\* s.trim()
Trim(s) == TrimEnd(TrimStart(s))

\* the fence handling of generate.js and webhook.js: the segment after the first
\* ```json, else after the first ```, up to the next ```
SplitUnwrap(content) ==
  IF Includes(content, <<Fence, Tag>>)
  THEN SplitFirst(SplitSecond(content, <<Fence, Tag>>), <<Fence>>)
  ELSE IF Includes(content, <<Fence>>)
  THEN SplitFirst(SplitSecond(content, <<Fence>>), <<Fence>>)
  ELSE content

\* generate.js: jsonStr.trim() is parsed
UnwrapGenerate(content) == Trim(SplitUnwrap(content))

\* webhook.js: jsonStr is parsed as it is
UnwrapWebhook(content) == SplitUnwrap(content)

\* part_001: a fence is removed only at the very start and the very end of the text
UnwrapSupabase(content) ==
  LET c0 == Trim(content)
      c1 == IF StartsWith(c0, <<Fence, Tag>>) THEN SubSeq(c0, 3, Len(c0)) ELSE c0
      c2 == IF StartsWith(c1, <<Fence>>) THEN SubSeq(c1, 2, Len(c1)) ELSE c1
      c3 == IF EndsWith(c2, <<Fence>>) THEN SubSeq(c2, 1, Len(c2) - 1) ELSE c2
  IN Trim(c3)

\* the result record an answer describes
Record(n) ==
  [type |-> "object", businessInfo |-> "info" \o n, modern |-> "<!DOCTYPE html>m" \o n,
   classic |-> "<!DOCTYPE html>c" \o n, warm |-> "<!DOCTYPE html>w" \o n]
\* {"businessInfo": ...}: valid JSON that lacks the three documents
PartialRecord ==
  [type |-> "object", businessInfo |-> "infoP", modern |-> Undefined,
   classic |-> Undefined, warm |-> Undefined]
\* the JSON text null
NullValue ==
  [type |-> "null", businessInfo |-> Undefined, modern |-> Undefined,
   classic |-> Undefined, warm |-> Undefined]

\* the JSON texts of the model, as tokens; the third holds a ``` inside a string
Doc1 == <<"{1}">>
Doc2 == <<"{2}">>
Doc3 == <<"{3:\"", Fence, "\"}">>
DocPartial == <<"{P}">>
DocNull == <<"null">>
JsonDocs == {Doc1, Doc2, Doc3, DocPartial, DocNull}

DocValue(d) ==
  CASE d = Doc1 -> Record("1")
    [] d = Doc2 -> Record("2")
    [] d = Doc3 -> Record("3")
    [] d = DocPartial -> PartialRecord
    [] d = DocNull -> NullValue

SyntaxError == [type |-> "SyntaxError", businessInfo |-> Undefined, modern |-> Undefined,
                classic |-> Undefined, warm |-> Undefined]

\* JSON.parse(text): white space around the value is allowed; anything that is not one
\* JSON value throws a SyntaxError
JSONparse(text) == IF Trim(text) \in JsonDocs THEN DocValue(Trim(text)) ELSE SyntaxError

\* ------------------------------------------------------------------ state
VARIABLES
  env,        \* process.env: the webhook secret and whether the API key is set
  req,        \* per request: handler, method, headers, body bytes, decoded body
  pc,         \* per request: "off", "start", "awaitGen", "awaitSave", "done"
  sessionId,  \* per request: the session id, Undefined until minted
  genCalls,   \* per request: the transcripts passed to the generation collaborator
  reply,      \* per request: what the generation collaborator answered
  websites,   \* per request: the parsed result record
  saveCalls,  \* per request: the persistence writes issued, as [key, value]
  saveResult, \* per request: "none", or how the persistence write ended: "ok", "failed"
  responses,  \* per request: the responses sent
  store,      \* the persistence backend: the [key, value] entries it holds
  writeLog,   \* the writes the backend has accepted, in the order it accepted them
  unwrapIn,   \* the unwrap routines on their own: routine and answer text
  unwrapOut   \* the unwrap routines on their own: the parsed results

vars == <<env, req, pc, sessionId, genCalls, reply, websites, saveCalls, saveResult,
          responses, store, writeLog, unwrapIn, unwrapOut>>
uvars == <<unwrapIn, unwrapOut>>

HeaderNames == <<"elevenlabs-signature", "x-elevenlabs-signature", "x-signature">>
NoHeader == [present |-> FALSE, value |-> <<>>]
Header(v) == [present |-> TRUE, value |-> v]
NoHeaders == [i \in 1..Len(HeaderNames) |-> NoHeader]

NoReply == [state |-> "none", content |-> <<>>]
ErrorReply == [state |-> "error", content |-> <<>>]
OkReply(c) == [state |-> "ok", content |-> c]

NoWebsites == [type |-> "none", businessInfo |-> Undefined, modern |-> Undefined,
               classic |-> Undefined, warm |-> Undefined]

Response(status, body) == [status |-> status, body |-> body]
ErrorBody(error, details) == [error |-> error, details |-> details]

\* kv.set(key, value): the value stored under the key is replaced
Put(st, k, v) == {e \in st : e.key # k} \cup {[key |-> k, value |-> v]}

\* POST /rest/v1/generated_sites with Prefer: return=minimal: a plain insert; a row the
\* backend accepts is added to the table, and no row is replaced
Insert(st, k, v) == st \cup {[key |-> k, value |-> v]}

\* the record of an accepted write
Written(r, call) == [req |-> r, key |-> call.key, value |-> call.value]

\* --------------------------------------------------- webhook.js: the handler
\* req.headers['elevenlabs-signature'] || req.headers['x-elevenlabs-signature']
\*   || req.headers['x-signature']
SignatureOf(headers) ==
  IF headers[1].present /\ headers[1].value # <<>> THEN headers[1]
  ELSE IF headers[2].present /\ headers[2].value # <<>> THEN headers[2]
  ELSE headers[3]

\* AuthDecision with a request that cannot be verified rejected
AuthDecision_RejectUnverifiable(secret, body, headers) ==
  LET signature == SignatureOf(headers)
  IN IF signature.present /\ signature.value # <<>> /\ secret # NoSecret
     THEN IF verifyHmacSignature(secret, JSONstringify(body), signature.value) = "false"
          THEN "reject" ELSE "proceed"
     ELSE "reject"

\* the verification block: "reject" answers 401, "proceed" goes on to the extraction
AuthDecision(secret, body, headers) ==
  LET rawBody == JSONstringify(body)
      signature == SignatureOf(headers)
  IN IF signature.present /\ signature.value # <<>> /\ secret # NoSecret
     THEN CHOOSE decision \in
            {CASE isValid = "false" -> "reject"
               [] isValid = "true" -> "proceed"
               \* the comparison threw: caught, logged, "continue anyway"
               [] OTHER -> "proceed" :
               isValid \in {verifyHmacSignature(secret, rawBody, signature.value)}} : TRUE
     ELSE "proceed"

\* WebhookAck as a 400, the way the direct submission handler answers
WebhookAck_BadRequest(body) == Response(400, [error |-> "No transcript provided"])

\* the acknowledgement of a body without transcript
WebhookAck(body) ==
  Response(200, [received |-> TRUE, message |-> "Webhook received but no transcript found",
                 payload_keys |-> ObjectKeys(body)])
SupabaseAck(body) ==
  Response(200, [received |-> TRUE, message |-> "No transcript found",
                 payload_keys |-> ObjectKeys(body)])

\* conversation_id || 'session_' + Date.now()
WebhookSessionId(body, now) == Or(body.conversation_id, "session_" \o ToString(now))

\* res.status(...).json(...): the response is sent and the handler returns
Respond(r, resp) ==
  /\ responses' = [responses EXCEPT ![r] = Append(@, resp)]
  /\ pc' = [pc EXCEPT ![r] = "done"]

\* MethodResponse that answers 404 to the methods it does not serve
MethodResponse_NotFound(method) ==
  IF method = "OPTIONS" THEN Response(200, [kind |-> "empty"])
  ELSE Response(404, [error |-> "Not found"])

\* the first steps every handler shares: OPTIONS and the other methods
MethodResponse(method) ==
  IF method = "OPTIONS" THEN Response(200, [kind |-> "empty"])
  ELSE Response(405, [error |-> "Method not allowed"])

\* webhook.js handler, from the start to the fetch of generateWebsites
WebhookReceive(r) ==
  /\ pc[r] = "start"
  /\ req[r].handler = "webhook"
  /\ UNCHANGED <<env, req, sessionId, reply, websites, saveCalls, saveResult, store, writeLog, uvars>>
  /\ IF req[r].method # "POST"
     THEN Respond(r, MethodResponse(req[r].method)) /\ UNCHANGED genCalls
     ELSE IF AuthDecision(env.secret, req[r].body, req[r].headers) = "reject"
     THEN Respond(r, Response(401, [error |-> "Invalid signature"])) /\ UNCHANGED genCalls
     ELSE LET finalTranscript == ExtractTranscript(req[r].body)
          IN IF ~Truthy(finalTranscript)
             THEN Respond(r, WebhookAck(req[r].body)) /\ UNCHANGED genCalls
             ELSE IF ~env.apiKey
             THEN /\ Respond(r, Response(500, ErrorBody("Failed to process webhook",
                                                  "OPENROUTER_API_KEY not configured")))
                  /\ UNCHANGED genCalls
             ELSE /\ genCalls' = [genCalls EXCEPT ![r] = Append(@, finalTranscript)]
                  /\ pc' = [pc EXCEPT ![r] = "awaitGen"]
                  /\ UNCHANGED responses

\* what the generation collaborator may answer
Tagged(x) == <<Fence, Tag, Ws>> \o x \o <<Ws, Fence>>
Fenced(x) == <<Fence, Ws>> \o x \o <<Ws, Fence>>
Explained(x) == <<Prose, Ws>> \o Tagged(x)
Padded(x) == <<Ws>> \o x \o <<Ws>>
AnswerTexts ==
  {Doc1, Tagged(Doc1), Fenced(Doc1), Explained(Doc1), Padded(Doc2), Doc3, DocPartial,
   DocNull, <<Prose>>}
Replies == {ErrorReply} \cup {OkReply(c) : c \in AnswerTexts}

Thrown(message) == [thrown |-> TRUE, message |-> message, value |-> NoWebsites]
Returned(value) == [thrown |-> FALSE, message |-> "", value |-> value]

\* generateWebsites of webhook.js from the collaborator's reply on
generateWebsites(rep) ==
  IF rep.state # "ok" THEN Thrown("OpenRouter API error")
  ELSE IF JSONparse(UnwrapWebhook(rep.content)) = SyntaxError
  THEN Thrown("Failed to parse generated websites")
  ELSE Returned(JSONparse(UnwrapWebhook(rep.content)))

\* generateWebsitesFromTranscript that returns an empty record when the parse fails
generateWebsitesFromTranscript_Lenient(rep) ==
  IF rep.state # "ok" THEN Thrown("OpenRouter API error")
  ELSE IF JSONparse(UnwrapGenerate(rep.content)) = SyntaxError
  THEN Returned(PartialRecord)
  ELSE Returned(JSONparse(UnwrapGenerate(rep.content)))

\* generateWebsitesFromTranscript of generate.js from the collaborator's reply on
generateWebsitesFromTranscript(rep) ==
  IF rep.state # "ok" THEN Thrown("OpenRouter API error")
  ELSE IF JSONparse(UnwrapGenerate(rep.content)) = SyntaxError
  THEN Thrown("Unexpected token in JSON")
  ELSE Returned(JSONparse(UnwrapGenerate(rep.content)))

\* generateWebsites of part_001 from the collaborator's reply on
generateWebsitesSupabase(rep) ==
  IF rep.state # "ok" THEN Thrown("OpenRouter error")
  ELSE IF JSONparse(UnwrapSupabase(rep.content)) = SyntaxError
  THEN Thrown("Unexpected token in JSON")
  ELSE Returned(JSONparse(UnwrapSupabase(rep.content)))

\* the success response of webhook.js
WebhookSuccess(sid, w) ==
  Response(200, [success |-> TRUE, sessionId |-> sid,
                 message |-> "Websites generated successfully",
                 businessInfo |-> w.businessInfo, previewUrl |-> "/preview?id=" \o sid])

\* webhook.js handler, from the collaborator's reply to the response
WebhookGenReturn(r) ==
  /\ pc[r] = "awaitGen"
  /\ req[r].handler = "webhook"
  /\ \E rep \in Replies, now \in 1..MaxTime :
       LET g == generateWebsites(rep)
           sid == WebhookSessionId(req[r].body, now)
       IN /\ reply' = [reply EXCEPT ![r] = rep]
          /\ IF g.thrown
             THEN /\ Respond(r, Response(500, ErrorBody("Failed to process webhook", g.message)))
                  /\ UNCHANGED <<websites, sessionId>>
             ELSE /\ websites' = [websites EXCEPT ![r] = g.value]
                  /\ sessionId' = [sessionId EXCEPT ![r] = sid]
                  /\ IF g.value.type = "null"
                     THEN Respond(r, Response(500, ErrorBody("Failed to process webhook",
                                                             "Cannot read properties of null")))
                     ELSE Respond(r, WebhookSuccess(sid, g.value))
  /\ UNCHANGED <<env, req, genCalls, saveCalls, saveResult, store, writeLog, uvars>>

\* ---------------------------------------------------- part_001: the handler
\* the row saveToSupabase posts
SupabaseRow(sid, w, conversationId) ==
  [id |-> sid, conversation_id |-> conversationId, business_info |-> w.businessInfo,
   modern_html |-> w.modern, classic_html |-> w.classic, warm_html |-> w.warm]

SupabaseSuccess(sid, w) ==
  Response(200, [success |-> TRUE, sessionId |-> sid,
                 message |-> "Websites generated and saved",
                 businessInfo |-> w.businessInfo,
                 previewUrl |-> "https://spokensite.com/preview?id=" \o sid])

\* part_001 handler, from the start to the fetch of generateWebsites
SupabaseReceive(r) ==
  /\ pc[r] = "start"
  /\ req[r].handler = "supabase"
  /\ UNCHANGED <<env, req, sessionId, reply, websites, saveCalls, saveResult, store, writeLog, uvars>>
  /\ IF req[r].method # "POST"
     THEN Respond(r, MethodResponse(req[r].method)) /\ UNCHANGED genCalls
     ELSE LET finalTranscript == ExtractTranscript(req[r].body)
          IN IF ~Truthy(finalTranscript)
             THEN Respond(r, SupabaseAck(req[r].body)) /\ UNCHANGED genCalls
             ELSE IF ~env.apiKey
             THEN /\ Respond(r, Response(500, ErrorBody("Failed to process",
                                                  "OPENROUTER_API_KEY not configured")))
                  /\ UNCHANGED genCalls
             ELSE /\ genCalls' = [genCalls EXCEPT ![r] = Append(@, finalTranscript)]
                  /\ pc' = [pc EXCEPT ![r] = "awaitGen"]
                  /\ UNCHANGED responses

\* part_001 handler, from the collaborator's reply to the fetch of saveToSupabase
SupabaseGenReturn(r) ==
  /\ pc[r] = "awaitGen"
  /\ req[r].handler = "supabase"
  /\ \E rep \in Replies, now \in 1..MaxTime :
       LET g == generateWebsitesSupabase(rep)
           sid == WebhookSessionId(req[r].body, now)
       IN /\ reply' = [reply EXCEPT ![r] = rep]
          /\ IF g.thrown
             THEN /\ Respond(r, Response(500, ErrorBody("Failed to process", g.message)))
                  /\ UNCHANGED <<websites, sessionId, saveCalls>>
             ELSE /\ websites' = [websites EXCEPT ![r] = g.value]
                  /\ sessionId' = [sessionId EXCEPT ![r] = sid]
                  /\ IF g.value.type = "null"
                     THEN /\ Respond(r, Response(500, ErrorBody("Failed to process",
                                                       "Cannot read properties of null")))
                          /\ UNCHANGED saveCalls
                     ELSE /\ saveCalls' =
                               [saveCalls EXCEPT ![r] =
                                  Append(@, [key |-> sid,
                                             value |-> SupabaseRow(sid, g.value,
                                                         req[r].body.conversation_id)])]
                          /\ pc' = [pc EXCEPT ![r] = "awaitSave"]
                          /\ UNCHANGED responses
  /\ UNCHANGED <<env, req, genCalls, saveResult, store, writeLog, uvars>>

\* what the handler of part_001 does with the outcome of saveToSupabase
SupabaseAfterSave(ok, sid, w) ==
  IF ok THEN SupabaseSuccess(sid, w)
  ELSE Response(500, ErrorBody("Failed to process", "Supabase error"))

\* part_001 handler, from the outcome of the row insert to the response
SupabaseSaveReturn(r) ==
  /\ pc[r] = "awaitSave"
  /\ req[r].handler = "supabase"
  /\ \E ok \in BOOLEAN :
       /\ store' = IF ok THEN Insert(store, saveCalls[r][Len(saveCalls[r])].key,
                                     saveCalls[r][Len(saveCalls[r])].value)
                   ELSE store
       /\ writeLog' = IF ok THEN Append(writeLog, Written(r, saveCalls[r][Len(saveCalls[r])]))
                      ELSE writeLog
       /\ saveResult' = [saveResult EXCEPT ![r] = IF ok THEN "ok" ELSE "failed"]
       /\ Respond(r, SupabaseAfterSave(ok, sessionId[r], websites[r]))
  /\ UNCHANGED <<env, req, sessionId, genCalls, reply, websites, saveCalls, uvars>>

\* --------------------------------------------------- generate.js: the handler
\* the values Math.random().toString(36).substr(2, 9) can take
RandomSuffixes == {"k3x9q2m1a", "p0z8w7c4f"}

\* 'site_' + Date.now() + '_' + Math.random().toString(36).substr(2, 9)
GenerateSessionId(now, rnd) == "site_" \o ToString(now) \o "_" \o rnd

\* TranscriptCheck that only rejects an absent transcript
TranscriptCheck_AbsentOnly(body) == IF body.transcript = Undefined THEN "reject" ELSE "proceed"

\* the check of the transcript: "reject" answers 400
TranscriptCheck(body) == IF ~Truthy(body.transcript) THEN "reject" ELSE "proceed"

GenerateSuccess(sid, w) ==
  Response(200, [success |-> TRUE, sessionId |-> sid, businessInfo |-> w.businessInfo,
                 previewUrl |-> "/preview?id=" \o sid,
                 websites |-> [modern |-> w.modern, classic |-> w.classic, warm |-> w.warm]])

\* generate.js handler, from the start to the fetch of generateWebsitesFromTranscript
GenerateReceive(r) ==
  /\ pc[r] = "start"
  /\ req[r].handler = "generate"
  /\ UNCHANGED <<env, req, reply, websites, saveCalls, saveResult, store, writeLog, uvars>>
  /\ IF req[r].method # "POST"
     THEN Respond(r, MethodResponse(req[r].method)) /\ UNCHANGED <<genCalls, sessionId>>
     ELSE IF TranscriptCheck(req[r].body) = "reject"
     THEN /\ Respond(r, Response(400, [error |-> "No transcript provided"]))
          /\ UNCHANGED <<genCalls, sessionId>>
     ELSE \E now \in 1..MaxTime, rnd \in RandomSuffixes :
            /\ sessionId' = [sessionId EXCEPT ![r] = GenerateSessionId(now, rnd)]
            /\ IF ~env.apiKey
               THEN /\ Respond(r, Response(500, ErrorBody("Failed to generate websites",
                                   "OPENROUTER_API_KEY not configured in Vercel environment")))
                    /\ UNCHANGED genCalls
               ELSE /\ genCalls' = [genCalls EXCEPT ![r] = Append(@, req[r].body.transcript)]
                    /\ pc' = [pc EXCEPT ![r] = "awaitGen"]
                    /\ UNCHANGED responses

\* generate.js handler, from the collaborator's reply to the call of kv.set
GenerateGenReturn(r) ==
  /\ pc[r] = "awaitGen"
  /\ req[r].handler = "generate"
  /\ \E rep \in Replies :
       LET g == generateWebsitesFromTranscript(rep)
       IN /\ reply' = [reply EXCEPT ![r] = rep]
          /\ IF g.thrown
             THEN /\ Respond(r, Response(500, ErrorBody("Failed to generate websites",
                                                        g.message)))
                  /\ UNCHANGED <<websites, saveCalls>>
             ELSE /\ websites' = [websites EXCEPT ![r] = g.value]
                  /\ saveCalls' = [saveCalls EXCEPT ![r] =
                                     Append(@, [key |-> sessionId[r], value |-> g.value])]
                  /\ pc' = [pc EXCEPT ![r] = "awaitSave"]
                  /\ UNCHANGED responses
  /\ UNCHANGED <<env, req, sessionId, genCalls, saveResult, store, writeLog, uvars>>

\* what the handler of generate.js does with the outcome of kv.set: a failure is
\* caught and logged, and the response is built from the result either way
GenerateAfterSave(ok, sid, w) ==
  IF w.type = "null"
  THEN Response(500, ErrorBody("Failed to generate websites", "Cannot read properties of null"))
  ELSE GenerateSuccess(sid, w)

\* generate.js handler, from the outcome of kv.set to the response
GenerateSaveReturn(r) ==
  /\ pc[r] = "awaitSave"
  /\ req[r].handler = "generate"
  /\ \E ok \in BOOLEAN :
       /\ store' = IF ok THEN Put(store, saveCalls[r][Len(saveCalls[r])].key,
                                  saveCalls[r][Len(saveCalls[r])].value)
                   ELSE store
       /\ writeLog' = IF ok THEN Append(writeLog, Written(r, saveCalls[r][Len(saveCalls[r])]))
                      ELSE writeLog
       /\ saveResult' = [saveResult EXCEPT ![r] = IF ok THEN "ok" ELSE "failed"]
       /\ Respond(r, GenerateAfterSave(ok, sessionId[r], websites[r]))
  /\ UNCHANGED <<env, req, sessionId, genCalls, reply, websites, saveCalls, uvars>>

\* ------------------------------------------------------------ the requests
Request(handler, method, headers, style, body) ==
  [handler |-> handler, method |-> method, headers |-> headers,
   raw |-> Serialize(body, style), body |-> body]

EmptyBody == Body(Undefined, NoObj, NoObj, NoMsgs, Undefined, Undefined)
OffRequest == Request("none", "POST", NoHeaders, "compact", EmptyBody)

Env(secret, apiKey) == [secret |-> secret, apiKey |-> apiKey]

Handlers == {"generate", "webhook", "supabase"}
SecretSet == {Secrets[i] : i \in 1..Len(Secrets)}

\* the elements a messages array may hold
MessageKinds ==
  [role : {Undefined, "agent"}, content : {Undefined, "", "Hi"}, text : {Undefined, "Yo"}]

\* the arrays of at most MaxMsgs messages
MessageArrays == UNION {[1..n -> MessageKinds] : n \in 0..MaxMsgs}

\* signatures a caller may present for the bytes raw of body b
Flip(d) == [d EXCEPT ![Len(d)] = IF @ = "0" THEN "1" ELSE "0"]
Upper(d) == [i \in 1..Len(d) |-> UpperDigits[HexVal(d[i]) + 1]]
SignatureForms(d) ==
  {d, <<Sha256Prefix>> \o d, Flip(d), <<Sha256Prefix>> \o Flip(d),
   SubSeq(d, 1, Len(d) - 2), d \o <<"0", "0">>, d \o <<"z", "z">>, Upper(d)}
OtherBody == Body("D", NoObj, NoObj, NoMsgs, Undefined, Undefined)
SignatureValues(raw, b) ==
  UNION {SignatureForms(Hmac(k, m)) :
           k \in SecretSet, m \in {raw, JSONstringify(b), JSONstringify(OtherBody)}}
    \cup {<<>>, <<"z", "z", "z", "z">>}

\* the headers of a request that presents signature v under header name i
SignedHeaders(i, v) == [j \in 1..Len(HeaderNames) |-> IF j = i THEN Header(v) ELSE NoHeader]

\* OPTIONS and GET requests to every handler
MethodScenarios ==
  {[env |-> Env("k1", TRUE),
    req |-> Request(h, m, NoHeaders, "compact",
                    Body(t, NoObj, NoObj, NoMsgs, Undefined, Undefined))] :
     h \in Handlers, m \in {"OPTIONS", "GET"}, t \in {Undefined, "T"}}

\* signed and unsigned POST requests to the webhook handlers
AuthBodies ==
  {Body("T", NoObj, NoObj, NoMsgs, "c1", Undefined),
   Body(Undefined, NoObj, NoObj, NoMsgs, "c1", Undefined)}
AuthScenarios ==
  UNION {
    {[env |-> Env(k, TRUE), req |-> Request("webhook", "POST", hs, st, b)] :
       hs \in {NoHeaders} \cup
              {SignedHeaders(i, v) : i \in 1..Len(HeaderNames),
                                     v \in SignatureValues(Serialize(b, st), b)}}
    : k \in SecretSet \cup {NoSecret}, st \in {"compact", "spaced"}, b \in AuthBodies}
  \cup
  UNION {
    {[env |-> Env(k, TRUE),
      req |-> Request("supabase", "POST", SignedHeaders(1, v), "compact", b)] :
       v \in {Hmac("k1", JSONstringify(b)),
              <<Sha256Prefix>> \o Flip(Hmac("k1", JSONstringify(b)))}}
    : k \in {"k1", NoSecret}, b \in AuthBodies}

\* POST requests in which the four places of a transcript coexist
ShapeScenarios ==
  {[env |-> Env(NoSecret, TRUE),
    req |-> Request(h, "POST", NoHeaders, "compact", Body(t, d, c, m, "c1", Undefined))] :
     h \in {"webhook", "supabase"},
     t \in {Undefined, "", "T"},
     d \in {NoObj, Obj(Undefined), Obj(""), Obj("D")},
     c \in {NoObj, Obj(Undefined), Obj(""), Obj("C")},
     m \in {NoMsgs, OtherMsgs, Msgs(<<>>),
            Msgs(<<[role |-> "agent", content |-> "Hi", text |-> Undefined]>>)}}

\* POST requests whose transcript can only come from the messages
MessageScenarios ==
  {[env |-> Env(NoSecret, TRUE),
    req |-> Request(h, "POST", NoHeaders, "compact",
                    Body(Undefined, NoObj, NoObj, Msgs(ms), "c1", Undefined))] :
     h \in {"webhook", "supabase"}, ms \in MessageArrays}

\* POST requests with a top-level transcript or none, with and without API key
DirectScenarios ==
  {[env |-> Env(NoSecret, k),
    req |-> Request(h, "POST", NoHeaders, "compact",
                    Body(t, NoObj, NoObj, NoMsgs, cid, bn))] :
     k \in BOOLEAN, h \in Handlers, t \in {Undefined, "", "T"},
     cid \in {Undefined, "", "c1"}, bn \in {Undefined, "B"}}

Scenarios ==
  MethodScenarios \cup AuthScenarios \cup ShapeScenarios \cup MessageScenarios
    \cup DirectScenarios

\* ------------------------------------------- the unwrap routines on their own
NoUnwrap == [routine |-> "none"]

\* an answer text around the JSON text x: the fence a model may put around it, the white
\* space inside the fence, and the prose it may write before and after
Decorate(x, fence, pad, before, after) ==
  (IF before THEN <<Prose, Ws>> ELSE <<>>)
    \o (CASE fence = "tagged" -> <<Fence, Tag>>
            [] fence = "bare" -> <<Fence>>
            [] OTHER -> <<>>)
    \o (IF pad THEN <<Ws>> ELSE <<>>) \o x \o (IF pad THEN <<Ws>> ELSE <<>>)
    \o (IF fence = "none" THEN <<>> ELSE <<Fence>>)
    \o (IF after THEN <<Ws, Prose>> ELSE <<>>)

Routines == {"generate", "webhook", "supabase"}

\* the text a handler's routine hands to JSON.parse
UnwrapOf(routine, content) ==
  CASE routine = "generate" -> UnwrapGenerate(content)
    [] routine = "webhook" -> UnwrapWebhook(content)
    [] routine = "supabase" -> UnwrapSupabase(content)

InitUnwrap ==
  /\ env = Env(NoSecret, TRUE)
  /\ req = [r \in Reqs |-> OffRequest]
  /\ pc = [r \in Reqs |-> "off"]
  /\ sessionId = [r \in Reqs |-> Undefined]
  /\ genCalls = [r \in Reqs |-> <<>>]
  /\ reply = [r \in Reqs |-> NoReply]
  /\ websites = [r \in Reqs |-> NoWebsites]
  /\ saveCalls = [r \in Reqs |-> <<>>]
  /\ saveResult = [r \in Reqs |-> "none"]
  /\ responses = [r \in Reqs |-> <<>>]
  /\ store = {}
  /\ writeLog = <<>>
  /\ unwrapIn \in [routine : Routines, x : JsonDocs, pad : BOOLEAN,
                    before : BOOLEAN, after : BOOLEAN]
  /\ unwrapOut = NoUnwrap

\* one routine applied to x bare, in a tagged fence and in a bare fence
ApplyUnwrap(routine) ==
  /\ unwrapIn.routine = routine
  /\ unwrapOut = NoUnwrap
  /\ unwrapOut' =
       [routine |-> routine,
        bare |-> JSONparse(UnwrapOf(routine,
                   Decorate(unwrapIn.x, "none", unwrapIn.pad, FALSE, FALSE))),
        tagged |-> JSONparse(UnwrapOf(routine,
                     Decorate(unwrapIn.x, "tagged", unwrapIn.pad, unwrapIn.before,
                              unwrapIn.after))),
        fenced |-> JSONparse(UnwrapOf(routine,
                     Decorate(unwrapIn.x, "bare", unwrapIn.pad, unwrapIn.before,
                              unwrapIn.after)))]
  /\ UNCHANGED <<env, req, pc, sessionId, genCalls, reply, websites, saveCalls, saveResult,
                 responses, store, writeLog, unwrapIn>>

NextUnwrap ==
  \/ ApplyUnwrap("generate")
  \/ ApplyUnwrap("webhook")
  \/ ApplyUnwrap("supabase")

SpecUnwrap == InitUnwrap /\ [][NextUnwrap]_vars

\* ------------------------------------------------------- the specification
Init ==
  /\ \E sc \in Scenarios :
       /\ env = sc.env
       /\ req = [r \in Reqs |-> IF r = 1 THEN sc.req ELSE OffRequest]
  /\ pc = [r \in Reqs |-> IF r = 1 THEN "start" ELSE "off"]
  /\ sessionId = [r \in Reqs |-> Undefined]
  /\ genCalls = [r \in Reqs |-> <<>>]
  /\ reply = [r \in Reqs |-> NoReply]
  /\ websites = [r \in Reqs |-> NoWebsites]
  /\ saveCalls = [r \in Reqs |-> <<>>]
  /\ saveResult = [r \in Reqs |-> "none"]
  /\ responses = [r \in Reqs |-> <<>>]
  /\ store = {}
  /\ writeLog = <<>>
  /\ unwrapIn = NoUnwrap
  /\ unwrapOut = NoUnwrap

Next ==
  \E r \in Reqs :
    \/ GenerateReceive(r)
    \/ GenerateGenReturn(r)
    \/ GenerateSaveReturn(r)
    \/ WebhookReceive(r)
    \/ WebhookGenReturn(r)
    \/ SupabaseReceive(r)
    \/ SupabaseGenReturn(r)
    \/ SupabaseSaveReturn(r)

Spec == Init /\ [][Next]_vars

\* every awaited external call returns or fails, and the runtime then resumes the
\* handler: a step that stays possible is eventually taken
SpecFair == Init /\ [][Next]_vars /\ WF_vars(Next)

\* ------------------------------------- concurrent deliveries of one conversation
\* the conversation the platform delivers more than once
RaceBody == Body("T", NoObj, NoObj, NoMsgs, "c1", Undefined)

\* every request slot holds a delivery of the same conversation to the same handler
InitRace ==
  /\ env = Env(NoSecret, TRUE)
  /\ \E h \in {"webhook", "supabase"} :
       req = [r \in Reqs |-> Request(h, "POST", NoHeaders, "compact", RaceBody)]
  /\ pc = [r \in Reqs |-> "start"]
  /\ sessionId = [r \in Reqs |-> Undefined]
  /\ genCalls = [r \in Reqs |-> <<>>]
  /\ reply = [r \in Reqs |-> NoReply]
  /\ websites = [r \in Reqs |-> NoWebsites]
  /\ saveCalls = [r \in Reqs |-> <<>>]
  /\ saveResult = [r \in Reqs |-> "none"]
  /\ responses = [r \in Reqs |-> <<>>]
  /\ store = {}
  /\ writeLog = <<>>
  /\ unwrapIn = NoUnwrap
  /\ unwrapOut = NoUnwrap

\* the handlers run one invocation per request; their steps interleave at the awaits
NextRace ==
  \E r \in Reqs :
    \/ WebhookReceive(r)
    \/ WebhookGenReturn(r)
    \/ SupabaseReceive(r)
    \/ SupabaseGenReturn(r)
    \/ SupabaseSaveReturn(r)

SpecRace == InitRace /\ [][NextRace]_vars

\* ---------------------------------------------------------------- claims
\* what the claims say about a request
Started(r) == pc[r] \notin {"off", "start"}
Done(r) == pc[r] = "done"
IsPost(r, hs) == req[r].handler \in hs /\ req[r].method = "POST"
Status(r) == responses[r][1].status

\* the signature header a request carries, if it carries one
CarriesSignature(r) == \E i \in 1..Len(HeaderNames) : req[r].headers[i].present
CarriedSignature(r) ==
  req[r].headers[CHOOSE i \in 1..Len(HeaderNames) : req[r].headers[i].present].value

\* a signature without its optional scheme prefix
WithoutPrefix(sig) == IF sig # <<>> /\ Head(sig) = Sha256Prefix THEN Tail(sig) ELSE sig

\* the digests of the model differ whenever the secret or the bytes differ
DigestsDistinct ==
  \A r \in Reqs : \A k1 \in SecretSet, k2 \in SecretSet :
    \A m1 \in {req[r].raw, JSONstringify(req[r].body), JSONstringify(OtherBody)} :
      \A m2 \in {req[r].raw, JSONstringify(req[r].body), JSONstringify(OtherBody)} :
        (k1 # k2 \/ m1 # m2) => Hmac(k1, m1) # Hmac(k2, m2)

\* C1: a POST to the webhook handler that carries a non-empty signature header while a
\* secret is configured, and whose signature without the prefix is not the digest of the body
\* (neither of the bytes as received nor of the body as the handler re-serializes it),
\* is answered 401 {error: 'Invalid signature'} and never reaches the generation
\* collaborator.
C1_InvalidSignatureRejected ==
  \A r \in Reqs :
    (/\ IsPost(r, {"webhook"})
     /\ Started(r)
     /\ env.secret # NoSecret
     /\ CarriesSignature(r)
     /\ CarriedSignature(r) # <<>>
     /\ WithoutPrefix(CarriedSignature(r)) # Hmac(env.secret, req[r].raw)
     /\ WithoutPrefix(CarriedSignature(r)) # Hmac(env.secret, JSONstringify(req[r].body)))
    => /\ genCalls[r] = <<>>
       /\ Done(r)
       /\ responses[r] = <<Response(401, [error |-> "Invalid signature"])>>

\* C2: the signature is verified against the bytes as received: a POST to the webhook
\* handler whose signature (with or without prefix) is the digest of the received bytes
\* under the configured secret is never answered 401, and one whose signature is the
\* digest of other bytes or under another secret is answered 401.
C2_VerifiedAgainstReceivedBytes ==
  \A r \in Reqs :
    (IsPost(r, {"webhook"}) /\ Done(r) /\ env.secret # NoSecret /\ CarriesSignature(r))
    => LET sig == WithoutPrefix(CarriedSignature(r))
       IN /\ sig = Hmac(env.secret, req[r].raw) => Status(r) # 401
          /\ (\E k \in SecretSet :
                \E m \in {req[r].raw, JSONstringify(req[r].body), JSONstringify(OtherBody)} :
                  (k # env.secret \/ m # req[r].raw) /\ sig = Hmac(k, m))
             => Status(r) = 401

\* the four candidate transcripts of a body, in the order of precedence
Candidates(b) ==
  <<b.transcript,
    IF b.data.present THEN b.data.transcript ELSE Undefined,
    IF b.conversation.present THEN b.conversation.transcript ELSE Undefined,
    IF b.messages.kind = "array"
    THEN JoinLines([i \in 1..Len(b.messages.items) |->
           (IF b.messages.items[i].role \in {Undefined, ""} THEN "unknown"
            ELSE b.messages.items[i].role)
           \o ": "
           \o (IF b.messages.items[i].content \notin {Undefined, ""}
               THEN b.messages.items[i].content
               ELSE IF b.messages.items[i].text \notin {Undefined, ""}
               THEN b.messages.items[i].text ELSE "")])
    ELSE Undefined>>

NonEmptyAt(b, i) == Candidates(b)[i] \notin {Undefined, ""}

\* none of the four places of a body yields a non-empty transcript
NoTranscriptIn(b) == \A i \in 1..4 : ~NonEmptyAt(b, i)

\* the top-level keys of a body
TopLevelKeys(b) == {KeyOrder[i] : i \in {j \in 1..Len(KeyOrder) : HasKey(b, KeyOrder[j])}}

IsAcknowledgement(resp, b) ==
  /\ resp.status = 200
  /\ DOMAIN resp.body = {"received", "message", "payload_keys"}
  /\ resp.body.received = TRUE
  /\ resp.body.message # ""
  /\ {resp.body.payload_keys[i] : i \in 1..Len(resp.body.payload_keys)} = TopLevelKeys(b)
  /\ Len(resp.body.payload_keys) = Cardinality(TopLevelKeys(b))

\* C3: a POST to a webhook handler that is not rejected for its signature and whose body
\* holds no non-empty transcript in any of the four places is answered 200 with
\* received: true, a message and payload_keys equal to the top-level keys of the body,
\* and neither the generation nor the persistence collaborator is called.
C3_NoTranscriptAcknowledged ==
  \A r \in Reqs :
    (/\ IsPost(r, {"webhook", "supabase"})
     /\ Started(r)
     /\ NoTranscriptIn(req[r].body)
     /\ ~(Done(r) /\ Status(r) = 401))
    => /\ Done(r)
       /\ Len(responses[r]) = 1
       /\ IsAcknowledgement(responses[r][1], req[r].body)
       /\ genCalls[r] = <<>>
       /\ saveCalls[r] = <<>>

C3_Witness ==
  \E r \in Reqs :
    /\ IsPost(r, {"supabase"})
    /\ Done(r)
    /\ NoTranscriptIn(req[r].body)
    /\ req[r].body.messages.kind = "array"
    /\ req[r].body.data.present
    /\ IsAcknowledgement(responses[r][1], req[r].body)

\* C4: extraction is total with a fixed precedence: every POST to a webhook handler that
\* is not rejected for its signature either passes to generation the first non-empty
\* value among transcript, data.transcript, conversation.transcript and the text of the
\* messages, or, when there is none, is acknowledged; a later place never wins over an
\* earlier non-empty one.
C4_ExtractionPrecedence ==
  \A r \in Reqs :
    (/\ IsPost(r, {"webhook", "supabase"})
     /\ Started(r)
     /\ env.apiKey
     /\ ~(Done(r) /\ Status(r) = 401))
    => IF \E i \in 1..4 : NonEmptyAt(req[r].body, i)
       THEN LET first == CHOOSE i \in 1..4 :
                           /\ NonEmptyAt(req[r].body, i)
                           /\ \A j \in 1..(i - 1) : ~NonEmptyAt(req[r].body, j)
            IN genCalls[r] = <<Candidates(req[r].body)[first]>>
       ELSE genCalls[r] = <<>> /\ Done(r) /\ Status(r) = 200

C4_Witness ==
  \E r \in Reqs :
    /\ IsPost(r, {"webhook"})
    /\ Started(r)
    /\ ~NonEmptyAt(req[r].body, 1)
    /\ NonEmptyAt(req[r].body, 2)
    /\ NonEmptyAt(req[r].body, 3)
    /\ NonEmptyAt(req[r].body, 4)
    /\ genCalls[r] = <<req[r].body.data.transcript>>

\* the transcript of a body can only come from its messages array
OnlyMessages(b) ==
  ~NonEmptyAt(b, 1) /\ ~NonEmptyAt(b, 2) /\ ~NonEmptyAt(b, 3) /\ b.messages.kind = "array"

\* no element of the array holds a role or a text
NoTextAtAll(items) ==
  \A i \in 1..Len(items) :
    /\ items[i].role \in {Undefined, ""}
    /\ items[i].content \in {Undefined, ""}
    /\ items[i].text \in {Undefined, ""}

\* n lines 'unknown: ', joined by newlines
UnknownLines(n) == JoinLines([i \in 1..n |-> "unknown: "])

\* C5, as claimed: the transcript reconstructed from the messages is the newline-joined
\* sequence of the lines role + ': ' + text in array order, and a payload whose messages
\* carry no text at all (an empty array, or elements without role and text) produces no
\* transcript that is sent to generation.
C5_NoTextNeverGenerated ==
  \A r \in Reqs :
    (IsPost(r, {"webhook", "supabase"}) /\ Started(r) /\ OnlyMessages(req[r].body))
    => /\ genCalls[r] # <<>> => genCalls[r] = <<Candidates(req[r].body)[4]>>
       /\ NoTextAtAll(req[r].body.messages.items) => genCalls[r] = <<>>

\* C5, amended: the transcript reconstructed from the messages is the newline-joined
\* sequence of the lines role + ': ' + text in array order; only an empty array produces
\* no transcript (the request is acknowledged), while every non-empty array is sent to
\* generation, elements without role and text as the line 'unknown: '.
C5_MessagesReconstruction ==
  \A r \in Reqs :
    (/\ IsPost(r, {"webhook", "supabase"})
     /\ Started(r)
     /\ env.apiKey
     /\ OnlyMessages(req[r].body)
     /\ ~(Done(r) /\ Status(r) = 401))
    => LET items == req[r].body.messages.items
       IN /\ items = <<>> =>
               genCalls[r] = <<>> /\ Done(r) /\ IsAcknowledgement(responses[r][1], req[r].body)
          /\ items # <<>> => genCalls[r] = <<Candidates(req[r].body)[4]>>
          /\ (items # <<>> /\ NoTextAtAll(items)) =>
               genCalls[r] = <<UnknownLines(Len(items))>>

C5_Witness ==
  \E r \in Reqs :
    /\ IsPost(r, {"webhook"})
    /\ OnlyMessages(req[r].body)
    /\ Len(req[r].body.messages.items) = 2
    /\ NoTextAtAll(req[r].body.messages.items)
    /\ genCalls[r] = <<"unknown: \nunknown: ">>

\* C6: a POST to the direct submission handler whose body has no transcript (absent or
\* empty) is answered exactly 400; no generation call and no persistence write is made,
\* and no session id has been minted.
C6_MissingTranscript400 ==
  \A r \in Reqs :
    (IsPost(r, {"generate"}) /\ Started(r) /\ req[r].body.transcript \in {Undefined, ""})
    => /\ Done(r)
       /\ Len(responses[r]) = 1
       /\ Status(r) = 400
       /\ genCalls[r] = <<>>
       /\ saveCalls[r] = <<>>
       /\ sessionId[r] = Undefined

C6_Witness ==
  \E r \in Reqs :
    /\ IsPost(r, {"generate"})
    /\ req[r].body.transcript = ""
    /\ Done(r)
    /\ Status(r) = 400

\* C7: in every handler that persists the result, a persistence write that fails after a
\* successful generation is not fatal: the request ends with a 200 success response that
\* delivers the generated result, never with a 500.
C7_SaveFailureNonFatal ==
  \A r \in Reqs :
    (/\ IsPost(r, {"generate", "supabase"})
     /\ Done(r)
     /\ saveResult[r] = "failed"
     /\ websites[r].type = "object")
    => /\ Status(r) = 200
       /\ responses[r][1].body.success = TRUE
       /\ responses[r][1].body.businessInfo = websites[r].businessInfo

\* the collaborator failed: a non-success response, or content that is not valid JSON
\* after the handler's unwrapping
GenerationFailed(r) ==
  \/ reply[r].state = "error"
  \/ /\ reply[r].state = "ok"
     /\ JSONparse(UnwrapOf(req[r].handler, reply[r].content)) = SyntaxError

\* C8: when the generation collaborator fails, the handler answers 500 with an
\* {error, details} envelope, has made exactly one generation call and no persistence
\* write, and sends no success response with a partial result.
C8_GenerationFailure500 ==
  \A r \in Reqs :
    /\ Len(genCalls[r]) <= 1
    /\ (req[r].handler \in Handlers /\ reply[r].state # "none" /\ GenerationFailed(r))
       => /\ Done(r)
          /\ Len(responses[r]) = 1
          /\ Status(r) = 500
          /\ DOMAIN responses[r][1].body = {"error", "details"}
          /\ Len(genCalls[r]) = 1
          /\ saveCalls[r] = <<>>
          /\ websites[r] = NoWebsites

C8_Witness ==
  \E r \in Reqs :
    /\ req[r].handler = "generate"
    /\ reply[r] = OkReply(<<Prose>>)
    /\ Done(r)
    /\ Status(r) = 500

\* the first fenced segment of a text: what stands between the first fence marker, with
\* its tag if it has one, and the next fence marker
FirstFenced(c) ==
  LET i == CHOOSE k \in 1..Len(c) : c[k] = Fence /\ \A j \in 1..(k - 1) : c[j] # Fence
      from == IF i < Len(c) /\ c[i + 1] = Tag THEN i + 2 ELSE i + 1
      ends == {k \in from..Len(c) : c[k] = Fence}
      to == IF ends = {} THEN Len(c)
            ELSE (CHOOSE k \in ends : \A j \in ends : k <= j) - 1
  IN SubSeq(c, from, to)

HasFence(c) == \E k \in 1..Len(c) : c[k] = Fence

\* C9: each unwrap routine yields the same parsed result for a JSON text x bare, in a
\* tagged fence and in a bare fence, and takes the first fenced segment when a fence
\* marker stands anywhere in the collaborator's text, prose before or after it included.
C9_FenceUnwrapping ==
  unwrapOut # NoUnwrap =>
    /\ (~unwrapIn.before /\ ~unwrapIn.after) =>
         (unwrapOut.tagged = unwrapOut.bare /\ unwrapOut.fenced = unwrapOut.bare)
    /\ ~HasFence(unwrapIn.x) =>
         /\ unwrapOut.bare = JSONparse(unwrapIn.x)
         /\ unwrapOut.tagged =
              JSONparse(FirstFenced(Decorate(unwrapIn.x, "tagged", unwrapIn.pad,
                                             unwrapIn.before, unwrapIn.after)))
         /\ unwrapOut.fenced =
              JSONparse(FirstFenced(Decorate(unwrapIn.x, "bare", unwrapIn.pad,
                                             unwrapIn.before, unwrapIn.after)))

\* the request cannot be verified: no signature header, or no secret configured
Unverifiable(r) == ~CarriesSignature(r) \/ env.secret = NoSecret

\* C10: a POST to a webhook handler that cannot be verified is never answered 401 and
\* goes on to the extraction: without transcript it is acknowledged, with one the
\* transcript is passed to generation.
C10_UnverifiableAccepted ==
  \A r \in Reqs :
    (IsPost(r, {"webhook", "supabase"}) /\ Started(r) /\ Unverifiable(r))
    => /\ \A i \in 1..Len(responses[r]) : responses[r][i].status # 401
       /\ NoTranscriptIn(req[r].body) =>
            Done(r) /\ IsAcknowledgement(responses[r][1], req[r].body)
       /\ (~NoTranscriptIn(req[r].body) /\ env.apiKey) =>
            /\ Len(genCalls[r]) = 1
            /\ genCalls[r][1] \notin {Undefined, ""}

C10_Witness ==
  \E r \in Reqs :
    /\ IsPost(r, {"webhook"})
    /\ env.secret # NoSecret
    /\ ~CarriesSignature(r)
    /\ Len(genCalls[r]) = 1

\* two deliveries of one conversation to one webhook handler
SameConversation(r1, r2) ==
  /\ r1 # r2
  /\ IsPost(r1, {"webhook", "supabase"})
  /\ IsPost(r2, {"webhook", "supabase"})
  /\ req[r1].handler = req[r2].handler
  /\ Truthy(req[r1].body.conversation_id)
  /\ req[r1].body.conversation_id = req[r2].body.conversation_id

\* the delivery has finished, its generation yielded a result record and no write failed
Delivered(r) == Done(r) /\ websites[r].type = "object" /\ saveResult[r] # "failed"

\* the 200 success response that names session sid
IsSuccessFor(resp, sid) ==
  /\ resp.status = 200
  /\ "success" \in DOMAIN resp.body
  /\ resp.body.success = TRUE
  /\ resp.body.sessionId = sid

\* the entries the backend holds under key k
StoredUnder(k) == {e.value : e \in {x \in store : x.key = k}}

\* C11: two concurrent deliveries of one conversation_id to a webhook handler are not
\* deduplicated: in every interleaving each makes its own generation call, each writes
\* its result under the key conversation_id, the value stored under that key after both
\* have finished is that of the write that happened last, and both are answered 200
\* success with sessionId equal to the conversation_id.
C11_ConcurrentDeliveries ==
  \A r1 \in Reqs, r2 \in Reqs :
    (SameConversation(r1, r2) /\ Delivered(r1) /\ Delivered(r2))
    => LET cid == req[r1].body.conversation_id
       IN /\ Len(genCalls[r1]) = 1 /\ Len(genCalls[r2]) = 1
          /\ Len(saveCalls[r1]) = 1 /\ saveCalls[r1][1].key = cid
          /\ Len(saveCalls[r2]) = 1 /\ saveCalls[r2][1].key = cid
          /\ writeLog # <<>>
          /\ StoredUnder(cid) = {writeLog[Len(writeLog)].value}
          /\ responses[r1] # <<>> /\ IsSuccessFor(responses[r1][1], cid)
          /\ responses[r2] # <<>> /\ IsSuccessFor(responses[r2][1], cid)

\* a complete result record: the business attributes and the three documents
IsComplete(w) ==
  /\ w.type = "object"
  /\ w.businessInfo # Undefined
  /\ w.modern # Undefined /\ w.classic # Undefined /\ w.warm # Undefined

\* the session identifier of a webhook request: the caller's conversation_id when
\* present, otherwise a synthesized one
IsWebhookSession(sid, b) ==
  IF Truthy(b.conversation_id) THEN sid = b.conversation_id
  ELSE sid \in {"session_" \o ToString(n) : n \in 1..MaxTime}

\* the value of a write holds the whole record w
HoldsWhole(value, w) ==
  /\ value.business_info = w.businessInfo
  /\ value.modern_html = w.modern
  /\ value.classic_html = w.classic
  /\ value.warm_html = w.warm

\* the write is issued at most once, after the generation call has returned
WriteAfterGeneration(r) ==
  /\ Len(saveCalls[r]) <= 1
  /\ saveCalls[r] # <<>> =>
       /\ Len(genCalls[r]) = 1
       /\ reply[r].state = "ok"
       /\ ~GenerationFailed(r)

\* the write stores the whole, complete record under the session identifier
WriteWholeRecord(r) ==
  saveCalls[r] # <<>> =>
    /\ IsComplete(websites[r])
    /\ HoldsWhole(saveCalls[r][1].value, websites[r])
    /\ saveCalls[r][1].key = sessionId[r]
    /\ IsWebhookSession(sessionId[r], req[r].body)
    /\ (Done(r) /\ Status(r) = 200) => responses[r][1].body.sessionId = saveCalls[r][1].key

\* a 200 success response is sent only once the result has been persisted
PersistedBeforeSuccess(r) ==
  (Done(r) /\ Status(r) = 200 /\ "success" \in DOMAIN responses[r][1].body)
  => /\ saveResult[r] = "ok"
     /\ \E i \in 1..Len(writeLog) :
          /\ writeLog[i].req = r
          /\ writeLog[i].key = responses[r][1].body.sessionId
          /\ HoldsWhole(writeLog[i].value, websites[r])

\* C12: within one webhook request the generation call and the persistence write are
\* strictly sequential: a write is issued at most once, only after the generation call
\* has returned successfully and its content has parsed into a complete result record;
\* it stores that whole record under the session identifier returned in the response
\* (the caller's conversation_id when present, otherwise a synthesized one); and a
\* successful request has persisted its result before the 200 response is sent.
C12_WriteAfterGeneration ==
  \A r \in Reqs :
    (IsPost(r, {"webhook", "supabase"}) /\ Started(r))
    => /\ WriteAfterGeneration(r)
       /\ WriteWholeRecord(r)
       /\ PersistedBeforeSuccess(r)

\* the statuses a handler may answer with
Statuses == {200, 400, 401, 405, 500}

\* at most one response, with one of the statuses; a finished request has exactly one
OneResponse(r) ==
  /\ Len(responses[r]) <= 1
  /\ \A i \in 1..Len(responses[r]) : responses[r][i].status \in Statuses
  /\ Done(r) => Len(responses[r]) = 1

\* a request that is no POST is answered from its method alone, and calls nothing
MethodAnswered(r) ==
  (Started(r) /\ req[r].method # "POST")
  => /\ Done(r)
     /\ responses[r] =
          <<IF req[r].method = "OPTIONS" THEN Response(200, [kind |-> "empty"])
            ELSE Response(405, [error |-> "Method not allowed"])>>
     /\ genCalls[r] = <<>>
     /\ saveCalls[r] = <<>>

\* the transcript a handler obtains from a body
Obtained(r) ==
  IF req[r].handler = "generate" THEN {req[r].body.transcript}
  ELSE {Candidates(req[r].body)[i] : i \in 1..4}

\* the generation collaborator is called at most once, for a POST, with a non-empty
\* transcript obtained from the body
GenerationOnce(r) ==
  /\ Len(genCalls[r]) <= 1
  /\ genCalls[r] # <<>> =>
       /\ req[r].method = "POST"
       /\ genCalls[r][1] \notin {Undefined, ""}
       /\ genCalls[r][1] \in Obtained(r)

\* C13: in every execution of a handler in which each external call returns or fails,
\* the request ends with exactly one response, whose status is one of 200, 400, 401,
\* 405, 500; OPTIONS is answered 200 and any other method but POST 405, whatever the
\* body holds; and the generation collaborator is called at most once per request, only
\* for a POST from which a non-empty transcript was obtained.
C13_ExactlyOneResponse ==
  /\ [](\A r \in Reqs : OneResponse(r) /\ MethodAnswered(r) /\ GenerationOnce(r))
  /\ <>[](\A r \in Reqs : pc[r] # "off" => (Done(r) /\ Len(responses[r]) = 1))

C13_Witness ==
  \E r \in Reqs :
    /\ req[r].handler = "supabase"
    /\ Done(r)
    /\ Len(genCalls[r]) = 1
    /\ saveResult[r] = "failed"
    /\ Len(responses[r]) = 1
    /\ Status(r) = 500

====
